---- MODULE Spec2Model ----
(***************************************************************************)
(* A model of the MonDeployer scripts: the deploy workflow in its several  *)
(* variants (CLI deployers and MCP plugin tool handlers), the send-token   *)
(* batch runner, and the plugins' stdout guard.  The Solidity compiler and *)
(* the RPC / wallet client are black boxes: their outcomes are inputs.     *)
(***************************************************************************)
EXTENDS Integers, Sequences, FiniteSets, TLC

VARIABLES
    tool,        \* which entry point this run exercises: "deploy", "token", "stdout"
    variant,     \* which script / plugin of the repository is running
    pc,          \* position of the running handler (its await points)
    hasSource,   \* deploy input: input.sourceCode is present
    key,         \* the signing secret found in env.js: "none" or "ok"
    pragma,      \* the pragma solidity specifier of the source text
    solcOut,     \* what the compiler returns for the source
    txHash,      \* hash obtained when the creation transaction was sent
    waitOutcome, \* how the wait for the receipt ended (the receipt, if any)
    sendCalls,   \* number of contract-creation transactions handed to the client
    chainTxs,    \* creation transactions the network accepted
    artifacts,   \* the artifact store: contract name -> artifact
    nameArg,     \* deploy input: the contractName supplied with the request
    result,      \* what the operation returned, threw or printed as its result
    response,    \* the tool handler's response text (MCP variants)
    tokenAddress,   \* send-token input: "missing", "bad" or "ok"
    recipients,     \* send-token input: the list of recipient addresses
    amount,         \* send-token input: the amount per recipient
    rawAmount,      \* the amount handed to transfer (after parseUnits in the handler)
    idx,            \* position of the transfer loop in the recipient list (1-based)
    successful,     \* the loop's list of confirmed transfers
    failed,         \* the loop's list of per-recipient failures
    transferCalls,  \* positions whose transfer transaction was submitted, in order
    inFlight,       \* positions whose transfer is submitted and not yet settled
    readThrown,     \* the token reads (symbol, decimals, balanceOf) that threw
    balance,        \* the sender's token balance on the chain, in raw units
    lastWrite,      \* stdout guard: the last console.log / stdout.write call made
    stdoutReal,     \* stdout guard: what that call put on the real stdout
    stderrReal,     \* stdout guard: what that call put on stderr
    source,         \* version check: the Solidity source text (a sequence of tokens)
    normalized,     \* version check: the text the normalizer returned
    verdict,        \* version check: what the check of the text said
    files,          \* artifact store: the artifact files on disk
    history,        \* artifact store: the saves made so far, in order
    query,          \* artifact store: the name or address the last load was asked for
    listing,        \* artifact store: the directory listing the last load went through
    loaded,         \* artifact store: what the last loadContract call returned or threw
    request,        \* interaction, scripts: what the caller asked for
    rpcCalls,       \* interaction: the RPC calls issued so far, in order
    receiptStatus,  \* interaction: the status of the receipt the wait returned
    outcome,        \* interaction, scripts: what the caller got back
    printed,        \* interaction, scripts: the kinds of lines printed
    exitCode,       \* interaction, scripts: the exit status of the process
    shared,         \* overlapping runs: the content of the file both runs use
    procs,          \* overlapping runs: the position and the data of each run
    lastSave,       \* overlapping runs: the run whose write ended last
    now,            \* voting contract: block.timestamp
    hasRegistered,  \* voting contract: mapping(address => bool)
    voters,         \* voting contract: mapping(address => Voter)
    proposals       \* voting contract: Proposal[]

deployVars == <<hasSource, key, pragma, solcOut, txHash, waitOutcome, sendCalls, chainTxs,
                artifacts, nameArg>>

tokenVars == <<tokenAddress, recipients, amount, rawAmount, idx, successful, failed,
               transferCalls, inFlight, readThrown, balance>>

outVars == <<lastWrite, stdoutReal, stderrReal>>

verVars == <<source, normalized, verdict>>

artVars == <<files, history, query, listing, loaded>>

ixVars == <<request, rpcCalls, receiptStatus, outcome, printed, exitCode>>

ccVars == <<shared, procs, lastSave>>

votingVars == <<now, hasRegistered, voters, proposals>>

vars == <<tool, variant, pc, deployVars, result, response, tokenVars, outVars, verVars,
          artVars, ixVars, ccVars, votingVars, votingVars>>

----------------------------------------------------------------------------
(* Values *)

NoHash == "no-hash"
NoAddr == "no-address"
NoError == "no-error"
Pending == "pending"
NoArtifact == [contractName |-> "none"]

\* the artifact an earlier deployment of the same contract left in the store
EarlierArtifact ==
    [contractName |-> "SimpleToken", address |-> "0xA0", transactionHash |-> "0xh0"]
NoResponse == [fmt |-> "none"]

Hashes == {"0xh1", "0xh2"}
Addresses == {"0xA1"}
ContractName == "SimpleToken"

\* deployedContract.target: ethers computes it from sender and nonce when the
\* transaction is sent; it does not come from the receipt.
Target == "0xA1"

Keys == {"none", "ok"}
Pragmas == {"none", "0.8.28", "^0.8.0"}

\* The compiler's output: the severities of its diagnostics, whether the
\* output holds the contract under the requested name, whether it holds any
\* contract at all, and the bytecode object of the contract taken.
SolcOutputs ==
    { o \in [severities : SUBSET {"error", "warning"},
             named : BOOLEAN, any : BOOLEAN, bytecode : {"", "6080"}] :
        /\ o.named => o.any
        /\ ("error" \in o.severities) => (~o.any /\ o.bytecode = "")
        /\ ~o.any => o.bytecode = "" }

\* The outcome of the wait for the receipt: the wait throws, or it yields a
\* receipt, whose contractAddress may be absent.
WaitOutcomes == [threw : {FALSE}, contractAddress : Addresses \cup {NoAddr}]
                \cup {[threw |-> TRUE, contractAddress |-> NoAddr]}

NoOutcome == [threw |-> FALSE, contractAddress |-> "not-waited"]

DeployVariants == {"clean", "cli", "forcesolc", "multi", "shared", "viem"}

\* The contractName that comes with a deploy request: none, the name of a
\* contract the source declares, or a name the source does not declare.
NameArgs == {"none", "declared", "undeclared"}

\* The variants that compile under the supplied name (options.contractName,
\* CONTRACT_NAME, the file name); the plugin handlers that run in-process
\* take the name from the source text whatever the request says.
UsesSuppliedName(v) == v \in {"clean", "cli", "viem"}

Failure(msg, hash) ==
    [success |-> FALSE, error |-> msg, transactionHash |-> hash, address |-> NoAddr]

Success(hash, addr) ==
    [success |-> TRUE, error |-> NoError, transactionHash |-> hash, address |-> addr]

Proceed == [success |-> FALSE, error |-> Pending, transactionHash |-> NoHash, address |-> NoAddr]

NoResult == [success |-> FALSE, error |-> "no-result", transactionHash |-> NoHash, address |-> NoAddr]

----------------------------------------------------------------------------
(* The deploy workflow: what each variant does before the first network    *)
(* call (input validation, loading the secret, compiling).  Each operator  *)
(* returns Proceed or the failure the variant ends with.                   *)

\* examples/deploy-contract-template.js (clean deployer): compileSolidity
compileSolidity_clean(p, o) ==
    IF p # "0.8.28" THEN Failure("Contract must use Solidity version 0.8.28 exactly", NoHash)
    ELSE IF "error" \in o.severities THEN Failure("Compilation errors", NoHash)
    ELSE IF ~o.any THEN Failure("Compilation error", NoHash)
    ELSE IF ~o.named THEN Failure("Contract not found in compiled output", NoHash)
    ELSE Proceed

\* clean deployer: the module-level PRIVATE_KEY check, then deployContract up
\* to the send
deployContract_clean_entry(k, p, o) ==
    IF k = "none" THEN Failure("PRIVATE_KEY not found in env.js", NoHash)
    ELSE compileSolidity_clean(p, o)

\* deploy-contract.js: compileContract
compileContract_cli(o) ==
    IF "error" \in o.severities THEN Failure("Contract compilation failed", NoHash)
    ELSE IF ~o.any THEN Failure("TypeError", NoHash)
    ELSE IF ~o.named THEN Failure("Contract not found in compiled output", NoHash)
    ELSE Proceed

\* getPrivateKey.js
getPrivateKey(k) ==
    IF k = "none" THEN Failure("Private key not found in env.js", NoHash) ELSE Proceed

\* deploy-contract.js: deployContract up to the send
deployContract_cli_entry(k, o) ==
    IF getPrivateKey(k) # Proceed THEN getPrivateKey(k) ELSE compileContract_cli(o)

\* force-solc plugin: compileWithLocalSolc (takes the first contract)
compileWithLocalSolc(o) ==
    IF "error" \in o.severities THEN Failure("Compilation failed with error(s)", NoHash)
    ELSE IF ~o.any THEN Failure("No contracts found in compilation output", NoHash)
    ELSE Proceed

\* force-solc plugin: compileAndDeploy up to the send
compileAndDeploy_forcesolc_entry(k, o) ==
    IF k = "none" THEN Failure("No private key found in env.js", NoHash)
    ELSE compileWithLocalSolc(o)

\* a faulty compile step, used to test the sensitivity of the compile
\* properties: any diagnostic, a warning included, is fatal
compileSolidity_multi_warningsFatal(o) ==
    IF o.severities # {} THEN Failure("Compilation failed", NoHash)
    ELSE IF ~o.any THEN Failure("No compiled contracts found", NoHash)
    ELSE Proceed

\* multi-tool plugin: compileSolidity (falls back to the first contract)
compileSolidity_multi(o) ==
    IF "error" \in o.severities THEN Failure("Compilation failed", NoHash)
    ELSE IF ~o.any THEN Failure("No compiled contracts found", NoHash)
    ELSE Proceed

\* multi-tool plugin: deployContract after the wallet exists, up to the send
deployContract_compile(o) ==
    IF compileSolidity_multi(o) # Proceed THEN compileSolidity_multi(o)
    ELSE IF o.bytecode = "" THEN Failure("Bytecode is empty", NoHash)
    ELSE Proceed

\* multi-tool-plugin-v2.cjs: deployContract loads the secret itself
deployContract_multi_entry(k, o) ==
    IF k = "none" THEN Failure("No private key found in env.js", NoHash)
    ELSE deployContract_compile(o)

\* multi-tool plugin with the shared module-level wallet: without a secret
\* the wallet is a random one, and deployContract goes on with it
deployContract_shared_entry(k, o) == deployContract_compile(o)

\* utils/contract-deployer: compileSolidity, then deployContract's key check
compileAndDeploy_viem_entry(k, o) ==
    IF "error" \in o.severities THEN Failure("Compilation errors", NoHash)
    ELSE IF ~o.any THEN Failure("TypeError", NoHash)
    ELSE IF ~o.named THEN Failure("Contract not found in the compiled output", NoHash)
    ELSE IF k = "none" THEN Failure("Private key is required for deployment", NoHash)
    ELSE Proceed

\* src/index.ts deploy-contract handler: the key check, then compileAndDeploy
handler_viem_entry(k, o) ==
    IF k = "none" THEN Failure("No private key provided", NoHash)
    ELSE compileAndDeploy_viem_entry(k, o)

\* The deploy-contract tool handlers' input check
handler_missingSource(src) ==
    IF ~src THEN Failure("Missing source code in request", NoHash) ELSE Proceed

DeployEntry(v, src, k, p, o) ==
    CASE v = "clean" -> deployContract_clean_entry(k, p, o)
      [] v = "cli" -> deployContract_cli_entry(k, o)
      [] v = "forcesolc" ->
            IF ~src THEN handler_missingSource(src) ELSE compileAndDeploy_forcesolc_entry(k, o)
      [] v = "multi" ->
            IF ~src THEN handler_missingSource(src) ELSE deployContract_multi_entry(k, o)
      [] v = "shared" ->
            IF ~src THEN handler_missingSource(src) ELSE deployContract_shared_entry(k, o)
      [] v = "viem" -> handler_viem_entry(k, o)

(* What each variant does when the send fails. *)
OnSendError(v) ==
    CASE v = "clean" -> Failure("Transaction failed", NoHash)
      [] v = "cli" -> Failure("RPC error", NoHash)
      [] v = "forcesolc" -> Failure("Deployment failed", NoHash)
      [] v \in {"multi", "shared"} -> Failure("Server error", NoHash)
      [] v = "viem" -> Failure("Deployment error", NoHash)

(* What each variant does with the outcome of the wait for the receipt:    *)
(* rc is an outcome of the wait; h is the hash obtained at the send.         *)

deployContract_clean_onReceipt(h, rc) ==
    IF rc.threw THEN Failure("Failed to get transaction receipt", h)
    ELSE IF rc.contractAddress = NoAddr
         THEN Failure("Contract deployment failed - no contract address in receipt", h)
    ELSE Success(h, rc.contractAddress)

deployContract_cli_onReceipt(h, rc) ==
    IF rc.threw THEN Failure("RPC error", NoHash)
    ELSE IF rc.contractAddress = NoAddr
         THEN Failure("Contract deployment failed - no contract address in receipt", NoHash)
    ELSE Success(h, rc.contractAddress)

compileAndDeploy_forcesolc_onReceipt(h, rc) ==
    IF rc.threw THEN Failure("Deployment failed", NoHash)
    ELSE IF Target = NoAddr THEN Failure("Deployment failed", NoHash)
    ELSE Success(h, Target)

deployContract_multi_onReceipt(h, rc) ==
    IF rc.threw THEN Failure("Server error", NoHash)
    ELSE Success(h, Target)

deployContract_viem_onReceipt(h, rc) ==
    IF rc.threw THEN Failure("Deployment error", NoHash)
    ELSE IF rc.contractAddress = NoAddr
         THEN Failure("Contract deployment failed - no contract address in receipt", NoHash)
    ELSE Success(h, rc.contractAddress)

OnReceipt(v, h, rc) ==
    CASE v = "clean" -> deployContract_clean_onReceipt(h, rc)
      [] v = "cli" -> deployContract_cli_onReceipt(h, rc)
      [] v = "forcesolc" -> compileAndDeploy_forcesolc_onReceipt(h, rc)
      [] v \in {"multi", "shared"} -> deployContract_multi_onReceipt(h, rc)
      [] v = "viem" -> deployContract_viem_onReceipt(h, rc)

(* The artifact a successful deployment writes, per variant; the MCP       *)
(* plugins that deploy in-process write none.                              *)
SavesArtifact(v) == v \in {"clean", "cli", "viem"}

ArtifactOf(v, r) ==
    CASE v = "clean" ->
            [contractName |-> ContractName, address |-> r.address,
             transactionHash |-> r.transactionHash]
      [] v \in {"cli", "viem"} ->
            [contractName |-> ContractName, address |-> r.address,
             transactionHash |-> NoHash]

saveArtifact(v, r, store) ==
    IF r.success /\ SavesArtifact(v)
    THEN [store EXCEPT ![ContractName] = ArtifactOf(v, r)]
    ELSE store

(* The response a variant hands back for a result.  JSON.stringify of the  *)
(* result object gives a JSON text; the viem handler formats a sentence.   *)
JsonStringify(r) == [fmt |-> "json", body |-> r]

PlainText(r) == [fmt |-> "plain", isError |-> ~r.success]

Respond(v, r) ==
    CASE v \in {"forcesolc", "multi", "shared", "clean"} -> JsonStringify(r)
      [] v = "viem" -> PlainText(r)
      [] v = "cli" -> NoResponse

----------------------------------------------------------------------------
(* Deploy actions: one per stretch of the handler between two awaits *)

Finish(r) ==
    /\ result' = r
    /\ response' = Respond(variant, r)
    /\ pc' = "done"

\* entry of the deploy operation up to the first network call
deploy_entry ==
    /\ tool = "deploy" /\ pc = "entry"
    /\ LET r == DeployEntry(variant, hasSource, key, pragma, solcOut) IN
         IF r = Proceed
         THEN /\ pc' = IF variant = "viem" THEN "estimate" ELSE "send"
              /\ UNCHANGED <<result, response>>
         ELSE Finish(r)
    /\ UNCHANGED <<tool, variant, deployVars, tokenVars, outVars, verVars, artVars, ixVars, ccVars, votingVars, votingVars>>

\* contract-deployer deployContract: publicClient.estimateGas
deploy_estimateGas ==
    /\ tool = "deploy" /\ pc = "estimate"
    /\ \E ok \in BOOLEAN :
         IF ok THEN pc' = "send" /\ UNCHANGED <<result, response>>
         ELSE Finish(Failure("Deployment error", NoHash))
    /\ UNCHANGED <<tool, variant, deployVars, tokenVars, outVars, verVars, artVars, ixVars, ccVars, votingVars, votingVars>>

\* walletClient.deployContract / factory.deploy resolves or rejects
deploy_send ==
    /\ tool = "deploy" /\ pc = "send"
    /\ sendCalls' = sendCalls + 1
    /\ \E h \in Hashes \cup {NoHash} :
         IF h # NoHash
         THEN /\ txHash' = h
              /\ chainTxs' = chainTxs \cup {h}
              /\ pc' = "wait"
              /\ UNCHANGED <<result, response>>
         ELSE /\ Finish(OnSendError(variant))
              /\ UNCHANGED <<txHash, chainTxs>>
    /\ UNCHANGED <<tool, variant, hasSource, key, pragma, solcOut, waitOutcome, artifacts,
                   nameArg, tokenVars, outVars, verVars, artVars, ixVars, ccVars, votingVars, votingVars>>

\* the wait for the receipt resolves or rejects; the rest of the handler
deploy_wait ==
    /\ tool = "deploy" /\ pc = "wait"
    /\ \E rc \in WaitOutcomes :
         LET r == OnReceipt(variant, txHash, rc) IN
           /\ Finish(r)
           /\ waitOutcome' = rc
           /\ artifacts' = saveArtifact(variant, r, artifacts)
    /\ UNCHANGED <<tool, variant, hasSource, key, pragma, solcOut, txHash, sendCalls, chainTxs,
                   nameArg, tokenVars, outVars, verVars, artVars, ixVars, ccVars, votingVars, votingVars>>


----------------------------------------------------------------------------
(* The send-token batch runner.  Variants: "handler" is the multi-tool     *)
(* plugin's send-token handler (which runs the batch inline), "sendTokens" *)
(* is the plugin's sendTokens function, "tool" is the send-token tool      *)
(* module (its handler calling its own sendTokens).                        *)

MaxRecipients == 2
MaxBalance == 4

TokenVariants == {"handler", "sendTokens", "tool"}

\* Recipient address strings, by the features the checks look at: the prefix
\* ("0x", "0X" or none), the length, and whether the digits are hexadecimal.
Recipient ==
    { [pfx |-> "0x", len |-> 42, hex |-> TRUE],
      [pfx |-> "0X", len |-> 42, hex |-> TRUE],
      [pfx |-> "",   len |-> 40, hex |-> TRUE],
      [pfx |-> "0x", len |-> 41, hex |-> TRUE],
      [pfx |-> "0x", len |-> 42, hex |-> FALSE] }

RecipientLists == UNION { [1..n -> Recipient] : n \in 0..MaxRecipients }

Amounts == {-1, 0, 1, 2}
Decimals == {0, 1}
Balances == 0..MaxBalance
Threw == 0 - 1

Pow10(d) == IF d = 0 THEN 1 ELSE 10

\* String.prototype.toLowerCase on an address string
toLowerCase(r) == [r EXCEPT !.pfx = IF r.pfx = "0X" THEN "0x" ELSE r.pfx]

\* ethers.isAddress: 40 hex digits with or without the 0x prefix
isAddress(r) ==
    /\ r.hex
    /\ \/ (r.pfx = "0x" /\ r.len = 42)
       \/ (r.pfx = "" /\ r.len = 40)

\* The strict per-recipient checks (startsWith, length, isAddress), in order
recipientError(r) ==
    IF r.pfx # "0x" THEN "Invalid recipient: must start with 0x"
    ELSE IF r.len # 42 THEN "Invalid recipient: must be 42 characters long"
    ELSE IF ~isAddress(r) THEN "Invalid recipient: must be a valid EVM address"
    ELSE NoError

\* the recipients the loop iterates over
normalizedRecipients(v, rs) ==
    IF v \in {"handler", "sendTokens"}
    THEN [i \in DOMAIN rs |-> toLowerCase(rs[i])]
    ELSE rs

TokFailure(msg, fl) == [success |-> FALSE, error |-> msg, sent |-> <<>>, failed |-> fl]

TokSuccess(st, fl) == [success |-> TRUE, error |-> NoError, sent |-> st, failed |-> fl]

TokProceed == TokFailure(Pending, <<>>)

\* multi-tool plugin sendTokens: everything before the token reads
sendTokens_validate(k, ta, rs, amt) ==
    IF k = "none" THEN TokFailure("No private key found in env.js", <<>>)
    ELSE IF ta # "ok" THEN TokFailure("Invalid token address", <<>>)
    ELSE IF Len(rs) = 0
         THEN TokFailure("Recipients must be a non-empty array of addresses", <<>>)
    ELSE IF \E i \in DOMAIN rs : recipientError(toLowerCase(rs[i])) # NoError
         THEN TokFailure("Invalid recipient", <<>>)
    ELSE IF amt <= 0 THEN TokFailure("Amount must be greater than 0", <<>>)
    ELSE TokProceed

\* send-token tool module: handler input check, then sendTokens' validation
tool_validate(ta, rs, amt) ==
    IF ta = "missing" THEN TokFailure("Missing required parameters", <<>>)
    ELSE IF ta # "ok" THEN TokFailure("Invalid token address", <<>>)
    ELSE IF Len(rs) = 0
         THEN TokFailure("Recipients must be a non-empty array of addresses", <<>>)
    ELSE IF \E i \in DOMAIN rs : ~isAddress(rs[i])
         THEN TokFailure("Invalid recipient address", <<>>)
    ELSE IF amt <= 0 THEN TokFailure("Amount must be greater than 0", <<>>)
    ELSE TokProceed

\* multi-tool plugin send-token handler: everything before the token reads
handler_validate(k, ta) ==
    IF ta = "missing" THEN TokFailure("Missing required parameters", <<>>)
    ELSE IF k = "none" THEN TokFailure("No private key found in env.js", <<>>)
    ELSE TokProceed

TokenEntry(v, k, ta, rs, amt) ==
    CASE v = "handler" -> handler_validate(k, ta)
      [] v = "sendTokens" -> sendTokens_validate(k, ta, rs, amt)
      [] v = "tool" -> tool_validate(ta, rs, amt)

\* the first token read each variant awaits
FirstRead(v) == IF v = "handler" THEN "decimals" ELSE "symbol"

\* the result after the loop
handler_outcome(succ, fl) ==
    IF Len(succ) = 0 /\ Len(fl) > 0 THEN TokFailure("All transfers failed", fl)
    ELSE TokSuccess(succ, fl)

sendTokens_outcome(succ, fl) ==
    IF Len(succ) = 0 THEN TokFailure("All transfers failed", <<>>)
    ELSE TokSuccess(succ, fl)

TokenOutcome(v, succ, fl) ==
    IF v = "handler" THEN handler_outcome(succ, fl) ELSE sendTokens_outcome(succ, fl)

TokRespond(v, r) ==
    IF v \in {"handler", "tool"} THEN JsonStringify(r) ELSE NoResponse

TokFinish(r) ==
    /\ result' = r
    /\ response' = TokRespond(variant, r)
    /\ pc' = "done"

\* start of the for loop over the recipients (an empty list ends it at once)
EnterLoop ==
    IF Len(recipients) = 0
    THEN TokFinish(TokenOutcome(variant, successful, failed))
    ELSE pc' = "loop" /\ UNCHANGED <<result, response>>

\* a faulty end of iteration, used to test the sensitivity of the batch
\* properties: the batch stops as soon as an iteration records a failure
Advance_abortOnFailure(succ, fl) ==
    /\ successful' = succ
    /\ failed' = fl
    /\ IF idx + 1 > Len(recipients) \/ Len(fl) > Len(failed)
       THEN TokFinish(TokenOutcome(variant, succ, fl)) /\ idx' = idx
       ELSE pc' = "loop" /\ idx' = idx + 1 /\ UNCHANGED <<result, response>>

\* a faulty end of iteration, used to test the sensitivity of the batch
\* properties: after an iteration that recorded a failure the next recipient
\* is passed over
Advance_skipAfterFailure(succ, fl) ==
    /\ successful' = succ
    /\ failed' = fl
    /\ LET step == IF Len(fl) > Len(failed) THEN 2 ELSE 1 IN
         IF idx + step > Len(recipients)
         THEN TokFinish(TokenOutcome(variant, succ, fl)) /\ idx' = idx
         ELSE pc' = "loop" /\ idx' = idx + step /\ UNCHANGED <<result, response>>

\* end of one iteration: next recipient, or the code after the loop
Advance(succ, fl) ==
    /\ successful' = succ
    /\ failed' = fl
    /\ IF idx + 1 > Len(recipients)
       THEN TokFinish(TokenOutcome(variant, succ, fl)) /\ idx' = idx
       ELSE pc' = "loop" /\ idx' = idx + 1 /\ UNCHANGED <<result, response>>

\* entry of the send-token operation up to the first token read
tok_entry ==
    /\ tool = "token" /\ pc = "entry"
    /\ LET r == TokenEntry(variant, key, tokenAddress, recipients, amount) IN
         IF r = TokProceed
         THEN pc' = FirstRead(variant) /\ UNCHANGED <<result, response>>
         ELSE TokFinish(r)
    /\ UNCHANGED <<tool, variant, deployVars, tokenVars, outVars, verVars, artVars, ixVars, ccVars, votingVars, votingVars>>

\* tokenContract.decimals() resolves or rejects
tok_decimals ==
    /\ tool = "token" /\ pc = "decimals"
    /\ \E d \in Decimals \cup {Threw} :
         /\ (variant = "handler" /\ tokenAddress = "bad") => d = Threw
         /\ readThrown' = IF d = Threw THEN readThrown \cup {"decimals"} ELSE readThrown
         /\ CASE variant = "handler" ->
                   IF d = Threw
                   THEN TokFinish(TokFailure("Token transfer failed", <<>>))
                        /\ UNCHANGED rawAmount
                   ELSE /\ pc' = "symbol"
                        /\ rawAmount' = amount * Pow10(d)
                        /\ UNCHANGED <<result, response>>
              [] variant = "sendTokens" ->
                   /\ IF d = Threw THEN EnterLoop
                      ELSE pc' = "balance" /\ UNCHANGED <<result, response>>
                   /\ UNCHANGED rawAmount
              [] variant = "tool" -> EnterLoop /\ UNCHANGED rawAmount
    /\ UNCHANGED <<tool, variant, deployVars, tokenAddress, recipients, amount, balance, idx,
                   successful, failed, transferCalls, inFlight, outVars, verVars, artVars, ixVars, ccVars, votingVars, votingVars>>

\* tokenContract.symbol() resolves or rejects
tok_symbol ==
    /\ tool = "token" /\ pc = "symbol"
    /\ \E ok \in BOOLEAN :
         /\ readThrown' = IF ok THEN readThrown ELSE readThrown \cup {"symbol"}
         /\ IF variant = "handler"
            THEN pc' = "balance" /\ UNCHANGED <<result, response>>
            ELSE IF ok THEN pc' = "decimals" /\ UNCHANGED <<result, response>>
            ELSE EnterLoop
    /\ UNCHANGED <<tool, variant, deployVars, tokenAddress, recipients, amount, balance, rawAmount, idx,
                   successful, failed, transferCalls, inFlight, outVars, verVars, artVars, ixVars, ccVars, votingVars, votingVars>>

\* tokenContract.balanceOf(wallet.address) resolves or rejects
tok_balance ==
    /\ tool = "token" /\ pc = "balance"
    /\ \E b \in {balance, Threw} :
         /\ readThrown' = IF b = Threw THEN readThrown \cup {"balanceOf"} ELSE readThrown
         /\ IF variant = "handler"
            THEN IF b = Threw
                 THEN TokFinish(TokFailure("Token transfer failed", <<>>))
                 ELSE IF b < rawAmount * Len(recipients)
                 THEN TokFinish(TokFailure("Insufficient token balance", <<>>))
                 ELSE EnterLoop
            ELSE EnterLoop
    /\ UNCHANGED <<tool, variant, deployVars, tokenAddress, recipients, amount, balance, rawAmount, idx,
                   successful, failed, transferCalls, inFlight, outVars, verVars, artVars, ixVars, ccVars, votingVars, votingVars>>

\* one loop iteration up to the await of tokenContract.transfer
tok_transfer ==
    /\ tool = "token" /\ pc = "loop"
    /\ LET r == normalizedRecipients(variant, recipients)[idx]
           err == IF variant = "handler" THEN recipientError(r) ELSE NoError
       IN
         IF err # NoError
         THEN /\ Advance(successful, Append(failed, [i |-> idx, to |-> r, error |-> err]))
              /\ UNCHANGED <<transferCalls, inFlight>>
         ELSE IF rawAmount < 0
         THEN \* a negative uint256 argument: the call throws while encoding
              /\ Advance(successful,
                         Append(failed, [i |-> idx, to |-> r, error |-> "value out-of-bounds"]))
              /\ UNCHANGED <<transferCalls, inFlight>>
         ELSE /\ transferCalls' = Append(transferCalls, idx)
              /\ \E ok \in BOOLEAN :
                   IF ok
                   THEN /\ pc' = "confirm"
                        /\ inFlight' = inFlight \cup {idx}
                        /\ UNCHANGED <<result, response, idx, successful, failed>>
                   ELSE /\ Advance(successful,
                                   Append(failed, [i |-> idx, to |-> r, error |-> "send failed"]))
                        /\ UNCHANGED inFlight
    /\ UNCHANGED <<tool, variant, deployVars, tokenAddress, recipients, amount, balance, rawAmount,
                   readThrown, outVars, verVars, artVars, ixVars, ccVars, votingVars, votingVars>>

\* a faulty iteration, used to test the sensitivity of the ordering
\* properties: the loop goes on to the next recipient without awaiting
\* tx.wait(), so the transfer stays in flight
tok_confirm_notAwaited ==
    /\ tool = "token" /\ pc = "confirm"
    /\ inFlight' = inFlight
    /\ LET r == normalizedRecipients(variant, recipients)[idx] IN
         Advance(Append(successful, [i |-> idx, to |-> r]), failed)
    /\ UNCHANGED <<tool, variant, deployVars, tokenAddress, recipients, amount, balance, rawAmount,
                   transferCalls, readThrown, outVars, verVars, artVars, ixVars, ccVars, votingVars, votingVars>>

\* tx.wait() resolves or rejects; the rest of the iteration
tok_confirm ==
    /\ tool = "token" /\ pc = "confirm"
    /\ inFlight' = inFlight \ {idx}
    /\ LET r == normalizedRecipients(variant, recipients)[idx] IN
         \E ok \in BOOLEAN :
           IF ok
           THEN Advance(Append(successful, [i |-> idx, to |-> r]), failed)
           ELSE Advance(successful,
                        Append(failed, [i |-> idx, to |-> r, error |-> "wait failed"]))
    /\ UNCHANGED <<tool, variant, deployVars, tokenAddress, recipients, amount, balance, rawAmount,
                   transferCalls, readThrown, outVars, verVars, artVars, ixVars, ccVars, votingVars, votingVars>>

----------------------------------------------------------------------------
(* The plugins' stdout discipline.  "guarded" is the .cjs plugins: console.log *)
(* is redirected to console.error and process.stdout.write is overridden.      *)
(* "heuristic" is the TypeScript server: runServer replaces console.log by a   *)
(* function that looks at the first character of a string argument.            *)

MaxChunkLen == 3

OutVariants == {"guarded", "heuristic"}

Chars == {"{", "}", "[", "]", "1", "a", "\n"}

Texts == UNION { [1..n -> Chars] : n \in 0..MaxChunkLen }

\* A value passed to console.log or process.stdout.write: a string, or a
\* non-string (an object, a Buffer) given by the text it is rendered as.
Chunks == [isString : BOOLEAN, text : Texts]

\* position of the first non-whitespace character at or after i
RECURSIVE SkipWs(_, _)
SkipWs(s, i) ==
    IF i <= Len(s) /\ s[i] = "\n" THEN SkipWs(s, i + 1) ELSE i

\* position after the run of digits starting at i
RECURSIVE EndOfDigits(_, _)
EndOfDigits(s, i) ==
    IF i <= Len(s) /\ s[i] = "1" THEN EndOfDigits(s, i + 1) ELSE i

\* JSON.parse over Chars: the position after the value that starts at i, or 0
\* when no value starts there (numbers, {} and arrays of one value are
\* all the JSON values these characters can spell)
RECURSIVE ParseValue(_, _)
ParseValue(s, i) ==
    LET j == SkipWs(s, i) IN
      IF j > Len(s) THEN 0
      ELSE IF s[j] = "1" THEN EndOfDigits(s, j)
      ELSE IF s[j] = "{" THEN
           LET k == SkipWs(s, j + 1) IN
             IF k <= Len(s) /\ s[k] = "}" THEN k + 1 ELSE 0
      ELSE IF s[j] = "[" THEN
           LET k == SkipWs(s, j + 1) IN
             IF k <= Len(s) /\ s[k] = "]" THEN k + 1
             ELSE LET e == ParseValue(s, k) IN
                    IF e = 0 THEN 0
                    ELSE LET m == SkipWs(s, e) IN
                           IF m <= Len(s) /\ s[m] = "]" THEN m + 1 ELSE 0
      ELSE 0

\* JSON.parse(s) does not throw
JsonParses(s) ==
    LET e == ParseValue(s, 1) IN e # 0 /\ SkipWs(s, e) > Len(s)

\* what console.log / console.error write for one argument: its text and a newline
Line(c) == [isString |-> TRUE, text |-> Append(c.text, "\n")]

\* where a call's output went: <<what reached stdout, what reached stderr>>
ToStdout(c) == <<<<c>>, <<>>>>
ToStderr(c) == <<<<>>, <<c>>>>

\* multi-tool-plugin-v2.cjs: the process.stdout.write override (a rejected
\* string reaches stderr tagged "[INVALID JSON]"; the tag is left out here)
stdoutWrite_guarded(c) ==
    IF c.isString
    THEN IF JsonParses(c.text) THEN ToStdout(c) ELSE ToStderr(c)
    ELSE ToStderr(c)

\* multi-tool-plugin-v2.cjs: console.log = console.error.apply(...)
consoleLog_guarded(c) == ToStderr(Line(c))

\* monad-mcp/src/index.ts runServer: the console.log replacement; what it
\* passes on goes through the original console.log to the real stdout
consoleLog_heuristic(c) ==
    IF c.isString /\ ~(Len(c.text) >= 1 /\ c.text[1] \in {"{", "["})
    THEN ToStderr(Line(c))
    ELSE ToStdout(Line(c))

consoleLog(v, c) ==
    IF v = "guarded" THEN consoleLog_guarded(c) ELSE consoleLog_heuristic(c)

\* some code of the process calls console.log(c)
out_consoleLog ==
    /\ tool = "stdout" /\ pc = "entry"
    /\ pc' = "written"
    /\ \E c \in Chunks :
         /\ lastWrite' = [via |-> "console.log", chunk |-> c]
         /\ stdoutReal' = consoleLog(variant, c)[1]
         /\ stderrReal' = consoleLog(variant, c)[2]
    /\ UNCHANGED <<tool, variant, deployVars, result, response, tokenVars, verVars, artVars, ixVars, ccVars, votingVars, votingVars>>

\* some code of the guarded process calls process.stdout.write(c)
out_stdoutWrite ==
    /\ tool = "stdout" /\ variant = "guarded" /\ pc = "entry"
    /\ pc' = "written"
    /\ \E c \in Chunks :
         /\ lastWrite' = [via |-> "stdout.write", chunk |-> c]
         /\ stdoutReal' = stdoutWrite_guarded(c)[1]
         /\ stderrReal' = stdoutWrite_guarded(c)[2]
    /\ UNCHANGED <<tool, variant, deployVars, result, response, tokenVars, verVars, artVars, ixVars, ccVars, votingVars, votingVars>>

\* the stdio transport sends a message: one line of JSON written to stdout
out_transportSend ==
    /\ tool = "stdout" /\ pc = "entry"
    /\ pc' = "written"
    /\ \E t \in Texts :
         /\ JsonParses(t) /\ Len(t) < MaxChunkLen
         /\ LET c == Line([isString |-> TRUE, text |-> t]) IN
              /\ lastWrite' = [via |-> "transport", chunk |-> c]
              /\ stdoutReal' = IF variant = "guarded" THEN stdoutWrite_guarded(c)[1] ELSE <<c>>
              /\ stderrReal' = IF variant = "guarded" THEN stdoutWrite_guarded(c)[2] ELSE <<>>
    /\ UNCHANGED <<tool, variant, deployVars, result, response, tokenVars, verVars, artVars, ixVars, ccVars, votingVars, votingVars>>

NoWrite == [via |-> "none", chunk |-> [isString |-> TRUE, text |-> <<>>]]

\* the readers of the two streams consume what was written; the process is
\* ready for its next write
out_drain ==
    /\ tool = "stdout" /\ pc = "written"
    /\ pc' = "entry"
    /\ lastWrite' = NoWrite
    /\ stdoutReal' = <<>>
    /\ stderrReal' = <<>>
    /\ UNCHANGED <<tool, variant, deployVars, result, response, tokenVars, verVars, artVars, ixVars, ccVars, votingVars, votingVars>>

----------------------------------------------------------------------------
(* The Solidity version check and the version normalizer.  A source text is *)
(* a sequence of tokens: "P" is the text "pragma solidity " (keyword,       *)
(* whitespace, keyword, whitespace), "v" is "0.8.28", "x" is a specifier    *)
(* other than that ("^0.8.0"), "d" is a further digit, ";" is a semicolon,  *)
(* "S" is an SPDX license comment line with its line end, "c" is other      *)
(* code without a semicolon, "n" is an empty line.                          *)

MaxLines == 3

Lines ==
    { <<"S">>,                   \* // SPDX-License-Identifier: MIT
      <<"P", "v", ";">>,         \* pragma solidity 0.8.28;
      <<"P", "x", ";">>,         \* pragma solidity ^0.8.0;
      <<"P", "v", "d", ";">>,    \* pragma solidity 0.8.281;
      <<"P", "x">>,              \* pragma solidity ^0.8.0   (no semicolon)
      <<"c">>,                   \* contract A {}
      <<"c", ";">> }             \* uint256 constant X = 1;

RECURSIVE Concat(_)
Concat(ls) == IF ls = <<>> THEN <<>> ELSE Head(ls) \o Concat(Tail(ls))

Sources == { Concat(ls) : ls \in UNION { [1..n -> Lines] : n \in 0..MaxLines } }

NoText == <<"none">>

PragmaDirective == <<"P", "v", ";">>

\* the position of the first ";" at or after i, or 0
RECURSIVE FirstSemi(_, _)
FirstSemi(s, i) ==
    IF i > Len(s) THEN 0
    ELSE IF s[i] = ";" THEN i
    ELSE FirstSemi(s, i + 1)

\* /pragma\s+solidity\s+([^;]+);/ matches at p: the keyword, at least one
\* character that is no semicolon, then the first semicolon
MatchesAt(s, p) ==
    /\ p \in DOMAIN s
    /\ s[p] = "P"
    /\ FirstSemi(s, p + 1) >= p + 2

\* source.match(/pragma\s+solidity\s+([^;]+);/): where the leftmost match
\* starts, or 0
pragmaMatch(s) ==
    LET M == { p \in DOMAIN s : MatchesAt(s, p) } IN
      IF M = {} THEN 0 ELSE CHOOSE p \in M : \A q \in M : p <= q

\* pragmaMatch[1]: the text captured between the keyword and the semicolon
Captured(s, p) == SubSeq(s, p + 1, FirstSemi(s, p + 1) - 1)

\* String.prototype.trim
RECURSIVE trim(_)
trim(t) ==
    IF t = <<>> THEN t
    ELSE IF Head(t) = "n" THEN trim(Tail(t))
    ELSE IF t[Len(t)] = "n" THEN trim(SubSeq(t, 1, Len(t) - 1))
    ELSE t

\* source.replace(/pragma\s+solidity\s+([^;]+);/, 'pragma solidity 0.8.28;'):
\* the regex has no g flag, so the leftmost match alone is replaced
replacePragma(s) ==
    LET p == pragmaMatch(s) IN
      SubSeq(s, 1, p - 1) \o PragmaDirective \o SubSeq(s, FirstSemi(s, p + 1) + 1, Len(s))

\* source.match(/(\/\/\s*SPDX-License-Identifier:[^\n]+\n)/): where the first
\* SPDX comment line is, or 0
spdxMatch(s) ==
    LET M == { p \in DOMAIN s : s[p] = "S" } IN
      IF M = {} THEN 0 ELSE CHOOSE p \in M : \A q \in M : p <= q

\* the contract forceVersion returns for an empty source
DefaultContract == <<"S">> \o PragmaDirective \o <<"n", "c", ";", "c", ";", "c", ";">>

\* multi-tool-plugin-v2.cjs: forceVersion
forceVersion(s) ==
    IF s = <<>> THEN DefaultContract
    ELSE IF pragmaMatch(s) # 0 THEN replacePragma(s)
    ELSE PragmaDirective \o <<"n", "n">> \o s

\* check-contract-version.js: fixVersion (the plugins' forceCorrectVersion is
\* the same code for a non-empty source); an empty source makes it throw
fixVersion(s) ==
    IF pragmaMatch(s) # 0 THEN replacePragma(s)
    ELSE IF spdxMatch(s) # 0
         THEN SubSeq(s, 1, spdxMatch(s)) \o <<"n">> \o PragmaDirective \o <<"n">>
              \o SubSeq(s, spdxMatch(s) + 1, Len(s))
    ELSE PragmaDirective \o <<"n", "n">> \o s

\* check-contract-version.js: checkVersion (check-solidity-version.js makes
\* the same test)
checkVersion(s) ==
    IF s = <<>> THEN "Invalid input"
    ELSE IF pragmaMatch(s) = 0 THEN "No pragma solidity statement found in contract"
    ELSE IF trim(Captured(s, pragmaMatch(s))) # <<"v">> THEN "Invalid Solidity version"
    ELSE "valid"

\* source.includes('pragma solidity 0.8.28'): the test of the deploy template,
\* the clean deployer, deploy-simple-token and deploy-simple-storage
includesRequired(s) ==
    \E i \in DOMAIN s : s[i] = "P" /\ i + 1 \in DOMAIN s /\ s[i + 1] = "v"

Normalizers == {"forceVersion", "fixVersion"}
Gates == {"checkVersion", "includes"}
VersionVariants == Normalizers \cup Gates

\* the normalizer is applied to the source
ver_normalize ==
    /\ tool = "version" /\ variant \in Normalizers /\ pc = "entry"
    /\ IF variant = "fixVersion" /\ source = <<>>
       THEN /\ verdict' = "Invalid input"
            /\ pc' = "done"
            /\ UNCHANGED normalized
       ELSE /\ normalized' = IF variant = "forceVersion" THEN forceVersion(source)
                                                         ELSE fixVersion(source)
            /\ pc' = "normalized"
            /\ UNCHANGED verdict
    /\ UNCHANGED <<tool, variant, deployVars, result, response, tokenVars, outVars, artVars, ixVars, ccVars, votingVars, source>>

\* the normalized text is checked before it is compiled
ver_recheck ==
    /\ tool = "version" /\ pc = "normalized"
    /\ verdict' = checkVersion(normalized)
    /\ pc' = "done"
    /\ UNCHANGED <<tool, variant, deployVars, result, response, tokenVars, outVars, artVars, ixVars, ccVars, votingVars,
                   source, normalized>>

\* a rejecting entry point tests the source: it goes on to compile, or stops
ver_gate ==
    /\ tool = "version" /\ variant \in Gates /\ pc = "entry"
    /\ verdict' = IF variant = "checkVersion"
                  THEN (IF checkVersion(source) = "valid" THEN "compile" ELSE "rejected")
                  ELSE (IF includesRequired(source) THEN "compile" ELSE "rejected")
    /\ pc' = "done"
    /\ UNCHANGED <<tool, variant, deployVars, result, response, tokenVars, outVars, artVars, ixVars, ccVars, votingVars,
                   source, normalized>>

----------------------------------------------------------------------------
(* The artifact store.  A deployer writes <contractName>.json into its      *)
(* artifacts directory; loadContract of interact-contract.js reads the       *)
(* directory "artifacts" beside the scripts, by contract name or by address. *)

MaxSaves == 2

ContractNames == {"SimpleToken", "Voting"}
Abis == {"abi1", "abi2"}

\* An address string: which address it spells, and whether its hex digits
\* are all lower case or in mixed (checksum) case.
AddressStrings == [id : {"a1", "a2"}, case : {"lower", "mixed"}]

\* the value of a field the object does not have
Absent == "undefined"

\* the deployers that save an artifact
SaveVariants == {"cli", "clean", "viem"}

\* what a successful deployment produced
Deployments ==
    [contractName : ContractNames, address : AddressStrings, abi : Abis,
     transactionHash : {"0xh1"}]

\* where each deployer puts its artifacts: deploy-contract.js beside the
\* script, the clean deployer and the viem deployer under os.tmpdir()
artifactsDir(v) == IF v = "cli" THEN "artifacts" ELSE "monad-deployments"

\* the object each deployer writes (JSON.stringify) and a reader gets back
\* (JSON.parse), in the fields a reader can look at
artifactJson(v, d) ==
    [contractName |-> d.contractName, address |-> d.address, abi |-> d.abi,
     transactionHash |-> IF v = "clean" THEN d.transactionHash ELSE Absent]

\* a faulty write, used to test the sensitivity of the store properties: the
\* file that is already there stays beside the new one
writeFileSync_keepOld(fs, dir, name, content) ==
    fs \cup {[dir |-> dir, name |-> name, content |-> content]}

\* fs.writeFileSync(path, text): the file at the path is created or replaced
writeFileSync(fs, dir, name, content) ==
    { f \in fs : ~(f.dir = dir /\ f.name = name) }
        \cup {[dir |-> dir, name |-> name, content |-> content]}

\* a faulty comparison, used to test the sensitivity of the lookup
\* properties: the address is compared as it is written
addressAsWritten(a) == a

\* String.prototype.toLowerCase on an address string
addressToLowerCase(a) == [a EXCEPT !.case = "lower"]

LoadFound(addr, abi) ==
    [ok |-> TRUE, address |-> addr, abi |-> abi, contractName |-> Absent,
     transactionHash |-> Absent, error |-> NoError]

LoadError(msg) ==
    [ok |-> FALSE, address |-> Absent, abi |-> Absent, contractName |-> Absent,
     transactionHash |-> Absent, error |-> msg]

NotLoaded == LoadError("not-loaded")

\* interact-contract.js loadContract, name branch
loadContract_byName(fs, n) ==
    LET F == { f \in fs : f.dir = "artifacts" /\ f.name = n } IN
      IF F = {} THEN LoadError("Contract artifacts not found")
      ELSE LET a == (CHOOSE f \in F : TRUE).content IN LoadFound(a.address, a.abi)

\* interact-contract.js loadContract, address branch: ls is what readdirSync
\* returned, q is the address asked for
loadContract_byAddress(ls, q) ==
    LET M == { i \in DOMAIN ls :
                 addressToLowerCase(ls[i].content.address) = addressToLowerCase(q) } IN
      IF M = {} THEN LoadError("Could not find ABI for contract")
      ELSE LET i == CHOOSE j \in M : \A k \in M : j <= k IN
             LoadFound(q, ls[i].content.abi)

\* fs.readdirSync: the files of the directory, in an order the platform chooses
Listings(fs) ==
    LET F == { f \in fs : f.dir = "artifacts" } IN
      { ls \in [1..Cardinality(F) -> F] : \A f \in F : \E i \in DOMAIN ls : ls[i] = f }

\* a deployer has deployed d and saves its artifact
art_save ==
    /\ tool = "artifact" /\ pc = "entry"
    /\ Len(history) < MaxSaves
    /\ \E v \in SaveVariants, d \in Deployments :
         /\ files' = writeFileSync(files, artifactsDir(v), d.contractName, artifactJson(v, d))
         /\ history' = Append(history, [by |-> v, deployment |-> d])
    /\ UNCHANGED <<tool, variant, pc, deployVars, result, response, tokenVars, outVars, verVars, ixVars, ccVars, votingVars,
                   query, listing, loaded>>

\* loadContract(name)
art_loadByName ==
    /\ tool = "artifact" /\ pc = "entry"
    /\ \E n \in ContractNames :
         /\ query' = n
         /\ loaded' = loadContract_byName(files, n)
    /\ pc' = "loaded-by-name"
    /\ UNCHANGED <<tool, variant, deployVars, result, response, tokenVars, outVars, verVars, ixVars, ccVars, votingVars,
                   files, history, listing>>

\* loadContract(address)
art_loadByAddress ==
    /\ tool = "artifact" /\ pc = "entry"
    /\ \E q \in AddressStrings, ls \in Listings(files) :
         /\ query' = q
         /\ listing' = ls
         /\ loaded' = loadContract_byAddress(ls, q)
    /\ pc' = "loaded-by-address"
    /\ UNCHANGED <<tool, variant, deployVars, result, response, tokenVars, outVars, verVars, ixVars, ccVars, votingVars,
                   files, history>>

----------------------------------------------------------------------------
(* The interaction facade of interact-contract.js (read and write on a      *)
(* loaded contract), the wrappers of the reference module around it, its     *)
(* command line, and the command lines of the deploy scripts.                *)

Operations == {"read", "write"}

\* "facade": contract.read / contract.write of a loaded contract;
\* "reference": readContract / writeContract of the reference module;
\* "cli": node interact-contract.js <contract> <read|write> <function>
InteractVariants == {"facade", "reference", "cli"}

\* the deploy scripts that are run from the command line
ScriptVariants ==
    {"deploy-contract", "deploy-template", "deploy-my-contract", "deploy-simple-token",
     "clean-deployer"}

\* what goes wrong inside a script's run
Faults == {"none", "compile", "rpc"}

Requests == [operation : Operations, hasArtifact : BOOLEAN, fault : {"none"}]

ScriptRequests == [operation : {"deploy"}, hasArtifact : {FALSE}, fault : Faults]

NoRequest == [operation |-> "none", hasArtifact |-> FALSE, fault |-> "none"]

Returned(v) == [returned |-> v, thrown |-> NoError]

Thrown(msg) == [returned |-> "nothing", thrown |-> msg]

NoOutcomeYet == [returned |-> "nothing", thrown |-> "not-finished"]

\* createClients: getPrivateKey throws without a secret
createClients(k) ==
    IF getPrivateKey(k) = Proceed THEN NoError ELSE getPrivateKey(k).error

\* loadContract as the wrappers and the command line call it
loadContract_forCall(v, req) ==
    IF v # "facade" /\ ~req.hasArtifact THEN "Contract artifacts not found" ELSE NoError

\* How each entry point ends: o is what the inner call returned or threw, pr
\* is what was printed on the way.  The reference wrappers catch, print and
\* return undefined; the command line catches, prints and exits with 1.
settle(v, o, pr) ==
    CASE v = "facade" -> [outcome |-> o, printed |-> pr, exitCode |-> "none"]
      [] v = "reference" ->
            IF o.thrown # NoError
            THEN [outcome |-> Returned("undefined"), printed |-> pr \cup {"error"},
                  exitCode |-> "none"]
            ELSE [outcome |-> o, printed |-> pr, exitCode |-> "none"]
      [] v = "cli" ->
            IF o.thrown # NoError
            THEN [outcome |-> o, printed |-> pr \cup {"error"}, exitCode |-> "1"]
            ELSE [outcome |-> o, printed |-> pr, exitCode |-> "0"]

IxFinish(o, pr) ==
    LET e == settle(variant, o, pr) IN
      /\ outcome' = e.outcome
      /\ printed' = e.printed
      /\ exitCode' = e.exitCode
      /\ pc' = "done"

\* loadContract, then readContract / writeContract up to the RPC call
ix_entry ==
    /\ tool = "interact" /\ pc = "entry"
    /\ LET le == loadContract_forCall(variant, request)
           ce == createClients(key) IN
         IF le # NoError THEN IxFinish(Thrown(le), printed) /\ UNCHANGED rpcCalls
         ELSE IF ce # NoError THEN IxFinish(Thrown(ce), printed) /\ UNCHANGED rpcCalls
         ELSE /\ pc' = IF request.operation = "read" THEN "reading" ELSE "sending"
              /\ rpcCalls' = Append(rpcCalls, IF request.operation = "read"
                                                THEN "readContract" ELSE "writeContract")
              /\ UNCHANGED <<outcome, printed, exitCode>>
    /\ UNCHANGED <<tool, variant, deployVars, result, response, tokenVars, outVars, verVars,
                   artVars, ccVars, votingVars, request, receiptStatus>>

\* publicClient.readContract resolves or rejects
ix_read ==
    /\ tool = "interact" /\ pc = "reading"
    /\ \E ok \in BOOLEAN :
         IF ok THEN IxFinish(Returned("value"), printed)
         ELSE IxFinish(Thrown("RPC error"), printed \cup {"error"})
    /\ UNCHANGED <<tool, variant, deployVars, result, response, tokenVars, outVars, verVars,
                   artVars, ccVars, votingVars, request, rpcCalls, receiptStatus>>

\* walletClient.writeContract resolves with a hash or rejects
ix_send ==
    /\ tool = "interact" /\ pc = "sending"
    /\ \E ok \in BOOLEAN :
         IF ok THEN /\ pc' = "waiting"
                    /\ rpcCalls' = Append(rpcCalls, "waitForTransactionReceipt")
                    /\ UNCHANGED <<outcome, printed, exitCode>>
         ELSE /\ IxFinish(Thrown("RPC error"), printed \cup {"error"})
              /\ UNCHANGED rpcCalls
    /\ UNCHANGED <<tool, variant, deployVars, result, response, tokenVars, outVars, verVars,
                   artVars, ccVars, votingVars, request, receiptStatus>>

\* waitForTransactionReceipt resolves with the receipt of the mined
\* transaction, whose status is success or reverted, or rejects
ix_wait ==
    /\ tool = "interact" /\ pc = "waiting"
    /\ \E st \in {"success", "reverted", "none"} :
         /\ receiptStatus' = st
         /\ IF st = "none" THEN IxFinish(Thrown("RPC error"), printed \cup {"error"})
            ELSE IxFinish(Returned("receipt"), printed \cup {"success"})
    /\ UNCHANGED <<tool, variant, deployVars, result, response, tokenVars, outVars, verVars,
                   artVars, ccVars, votingVars, request, rpcCalls>>

\* How each deploy script's command line ends when its deployment threw
\* (or, for the clean deployer, returned a failure) with message msg
scriptEnd(v, msg) ==
    IF msg = NoError
    THEN [outcome |-> Returned("result"), printed |-> {"success"}, exitCode |-> "0"]
    ELSE CASE v \in {"deploy-contract", "deploy-template", "deploy-simple-token"} ->
                [outcome |-> Thrown(msg), printed |-> {"error"}, exitCode |-> "1"]
           [] v \in {"deploy-my-contract", "clean-deployer"} ->
                [outcome |-> Returned("undefined"), printed |-> {"error"}, exitCode |-> "0"]

\* one run of a deploy script from the command line
script_run ==
    /\ tool = "script" /\ pc = "entry"
    /\ LET msg == CASE request.fault = "none" -> NoError
                    [] request.fault = "compile" -> "Contract compilation failed"
                    [] request.fault = "rpc" -> "RPC error"
           e == scriptEnd(variant, msg) IN
         /\ outcome' = e.outcome
         /\ printed' = e.printed
         /\ exitCode' = e.exitCode
    /\ pc' = "done"
    /\ UNCHANGED <<tool, variant, deployVars, result, response, tokenVars, outVars, verVars,
                   artVars, ccVars, votingVars, request, rpcCalls, receiptStatus>>

----------------------------------------------------------------------------
(* Two runs that overlap in time.  "processes" and "eventloop": two         *)
(* deployments of one contract name that reach their artifact save, as two   *)
(* node processes or as two calls on one event loop.  "subprocess": two      *)
(* deploy-contract requests to the plugin that writes a deployment script    *)
(* and runs it in a child process.                                           *)

MaxChunks == 2

Procs == {"A", "B"}

SaveRaceVariants == {"processes", "eventloop"}

\* the JSON text of a run's artifact, as a sequence of pieces that name their
\* writer; the texts of two deployments need not have the same length
artifactText(p, n) == [k \in 1..n |-> [by |-> p, at |-> k]]

\* fs.openSync(path, 'w'): the file is created or truncated
openTruncate(f) == <<>>

\* fs.writeSync(fd, text) on a descriptor at position 0: the text replaces the
\* first Len(text) pieces of the file; what lies behind them stays
writeAtStart(f, text) == text \o SubSeq(f, Len(text) + 1, Len(f))

NoFile == <<>>

\* processes: fs.writeFileSync opens the file
race_open ==
    /\ tool = "saverace" /\ variant = "processes"
    /\ \E p \in Procs :
         /\ procs[p].pc = "confirmed"
         /\ shared' = openTruncate(shared)
         /\ procs' = [procs EXCEPT ![p].pc = "opened"]
    /\ UNCHANGED <<tool, variant, pc, deployVars, result, response, tokenVars, outVars,
                   verVars, artVars, ixVars, votingVars, lastSave>>

\* processes: fs.writeFileSync writes the text and closes the file
race_write ==
    /\ tool = "saverace" /\ variant = "processes"
    /\ \E p \in Procs :
         /\ procs[p].pc = "opened"
         /\ shared' = writeAtStart(shared, artifactText(p, procs[p].len))
         /\ procs' = [procs EXCEPT ![p].pc = "saved"]
         /\ lastSave' = p
    /\ UNCHANGED <<tool, variant, pc, deployVars, result, response, tokenVars, outVars,
                   verVars, artVars, ixVars, votingVars>>

\* eventloop: fs.writeFileSync runs from open to close before any other call
\* of the process goes on
race_writeFileSync ==
    /\ tool = "saverace" /\ variant = "eventloop"
    /\ \E p \in Procs :
         /\ procs[p].pc = "confirmed"
         /\ shared' = writeAtStart(openTruncate(shared), artifactText(p, procs[p].len))
         /\ procs' = [procs EXCEPT ![p].pc = "saved"]
         /\ lastSave' = p
    /\ UNCHANGED <<tool, variant, pc, deployVars, result, response, tokenVars, outVars,
                   verVars, artVars, ixVars, votingVars>>

\* the deploy-contract handler writes temp-deploy-script.js with the request's
\* source and starts node on it
sub_writeAndExec ==
    /\ tool = "subprocess"
    /\ \E p \in Procs :
         /\ procs[p].pc = "requested"
         /\ shared' = p
         /\ procs' = [procs EXCEPT ![p].pc = "spawned"]
    /\ UNCHANGED <<tool, variant, pc, deployVars, result, response, tokenVars, outVars,
                   verVars, artVars, ixVars, votingVars, lastSave>>

\* the child process loads the script that is at the path when it starts
sub_childLoad ==
    /\ tool = "subprocess"
    /\ \E p \in Procs :
         /\ procs[p].pc = "spawned"
         /\ procs' = [procs EXCEPT ![p] =
                        IF shared = "none"
                        THEN [pc |-> "returned", ran |-> "none", result |-> "error"]
                        ELSE [pc |-> "running", ran |-> shared, result |-> "none"]]
    /\ UNCHANGED <<tool, variant, pc, deployVars, result, response, tokenVars, outVars,
                   verVars, artVars, ixVars, votingVars, shared, lastSave>>

\* the child compiles and deploys the source it loaded and prints the result
sub_childDeploy ==
    /\ tool = "subprocess"
    /\ \E p \in Procs :
         /\ procs[p].pc = "running"
         /\ procs' = [procs EXCEPT ![p].pc = "printed"]
    /\ UNCHANGED <<tool, variant, pc, deployVars, result, response, tokenVars, outVars,
                   verVars, artVars, ixVars, votingVars, shared, lastSave>>

\* the child's timer deletes the file at the script's path and the child
\* ends; the handler parses the child's output and returns it
sub_cleanupAndReturn ==
    /\ tool = "subprocess"
    /\ \E p \in Procs :
         /\ procs[p].pc = "printed"
         /\ shared' = "none"
         /\ procs' = [procs EXCEPT ![p].pc = "returned", ![p].result = procs[p].ran]
    /\ UNCHANGED <<tool, variant, pc, deployVars, result, response, tokenVars, outVars,
                   verVars, artVars, ixVars, votingVars, lastSave>>

----------------------------------------------------------------------------
(* The AdvancedVoting contract of examples/AdvancedVoting.sol.  A call that *)
(* fails a require reverts and leaves the state as it was, so each function *)
(* is an action whose guard is the conjunction of its requires.             *)

MaxTime == 3
MaxProposals == 1

Accounts == {"admin", "v1"}
admin == "admin"
NoAccount == "0x0"

VoteOptions == {"Against", "For", "Abstain"}

\* the value of an entry of the voters mapping that was never written
NewVoter == [weight |-> 0, hasVoted |-> FALSE, vote |-> "Against", delegate |-> NoAccount,
             proposalVotes |-> {}]

\* the weight granted by grantVotingRights
Weights == {1}

\* proposalActive modifier
proposalActive(id) ==
    /\ id \in DOMAIN proposals
    /\ now >= proposals[id].startTime
    /\ now <= proposals[id].endTime

\* delegate: the walk along the delegation chain from a meets no s
RECURSIVE NoLoopFrom(_, _, _)
NoLoopFrom(a, s, fuel) ==
    IF a = NoAccount \/ fuel = 0 THEN TRUE
    ELSE a # s /\ NoLoopFrom(voters[a].delegate, s, fuel - 1)

\* a tally of proposal p after weight w was added for option o
addVotes(p, o, w) ==
    CASE o = "For" -> [p EXCEPT !.votesFor = @ + w]
      [] o = "Against" -> [p EXCEPT !.votesAgainst = @ + w]
      [] o = "Abstain" -> [p EXCEPT !.votesAbstain = @ + w]

VotingFrame == UNCHANGED <<tool, variant, pc, deployVars, result, response, tokenVars, outVars, verVars,
                   artVars, ixVars, ccVars>>

\* a later block: block.timestamp grows
vote_tick ==
    /\ tool = "voting"
    /\ now < MaxTime
    /\ now' = now + 1
    /\ UNCHANGED <<hasRegistered, voters, proposals>>
    /\ VotingFrame

\* registerVoter(voter) called by sender
vote_registerVoter ==
    /\ tool = "voting"
    /\ \E sender \in Accounts, voter \in Accounts :
         /\ sender = admin
         /\ ~hasRegistered[voter]
         /\ hasRegistered' = [hasRegistered EXCEPT ![voter] = TRUE]
    /\ UNCHANGED <<now, voters, proposals>>
    /\ VotingFrame

\* grantVotingRights(voter, weight) called by sender
vote_grantVotingRights ==
    /\ tool = "voting"
    /\ \E sender \in Accounts, voter \in Accounts, weight \in Weights :
         /\ sender = admin
         /\ hasRegistered[voter]
         /\ voters[voter].weight = 0
         /\ voters' = [voters EXCEPT ![voter].weight = weight]
    /\ UNCHANGED <<now, hasRegistered, proposals>>
    /\ VotingFrame

\* createProposal(title, description, startTime, duration) called by sender
vote_createProposal ==
    /\ tool = "voting"
    /\ Len(proposals) < MaxProposals
    /\ \E sender \in Accounts, startTime \in 0..MaxTime, duration \in 1..MaxTime :
         /\ sender = admin
         /\ startTime >= now
         /\ startTime + duration <= MaxTime
         /\ proposals' = Append(proposals,
                [votesFor |-> 0, votesAgainst |-> 0, votesAbstain |-> 0,
                 startTime |-> startTime, endTime |-> startTime + duration,
                 executed |-> FALSE, voters |-> <<>>])
    /\ UNCHANGED <<now, hasRegistered, voters>>
    /\ VotingFrame

\* delegate(to) called by sender
vote_delegate ==
    /\ tool = "voting"
    /\ \E sender \in Accounts, to \in Accounts :
         /\ hasRegistered[sender]
         /\ to # sender
         /\ hasRegistered[to]
         /\ voters[sender].weight > 0
         /\ ~voters[sender].hasVoted
         /\ voters[sender].delegate = NoAccount
         /\ NoLoopFrom(to, sender, Cardinality(Accounts))
         /\ IF voters[to].hasVoted
            THEN /\ proposals' =
                      [i \in DOMAIN proposals |->
                         IF i \in voters[to].proposalVotes
                         THEN addVotes(proposals[i], voters[to].vote, voters[sender].weight)
                         ELSE proposals[i]]
                 /\ voters' = [voters EXCEPT ![sender].delegate = to]
            ELSE /\ voters' = [voters EXCEPT ![sender].delegate = to,
                                             ![to].weight = @ + voters[sender].weight]
                 /\ UNCHANGED proposals
    /\ UNCHANGED <<now, hasRegistered>>
    /\ VotingFrame

\* vote(proposalId, voteOption) called by sender
vote_vote ==
    /\ tool = "voting"
    /\ \E sender \in Accounts, id \in 1..MaxProposals, o \in VoteOptions :
         /\ hasRegistered[sender]
         /\ proposalActive(id)
         /\ voters[sender].weight > 0
         /\ ~voters[sender].hasVoted
         /\ voters[sender].delegate = NoAccount
         /\ id \notin voters[sender].proposalVotes
         /\ voters' = [voters EXCEPT ![sender].hasVoted = TRUE,
                                     ![sender].vote = o,
                                     ![sender].proposalVotes = @ \cup {id}]
         /\ proposals' = [proposals EXCEPT ![id] =
                            [addVotes(@, o, voters[sender].weight)
                               EXCEPT !.voters = Append(@, sender)]]
    /\ UNCHANGED <<now, hasRegistered>>
    /\ VotingFrame

\* executeProposal(proposalId) called by sender
vote_executeProposal ==
    /\ tool = "voting"
    /\ \E sender \in Accounts, id \in 1..MaxProposals :
         /\ sender = admin
         /\ id \in DOMAIN proposals
         /\ now > proposals[id].endTime
         /\ ~proposals[id].executed
         /\ proposals' = [proposals EXCEPT ![id].executed = TRUE]
    /\ UNCHANGED <<now, hasRegistered, voters>>
    /\ VotingFrame

----------------------------------------------------------------------------
(* Specification *)

InitDeploy ==
    /\ tool = "deploy"
    /\ variant \in DeployVariants
    /\ hasSource \in BOOLEAN
    /\ (variant \in {"clean", "cli"}) => hasSource
    /\ key \in Keys
    /\ pragma \in Pragmas
    /\ solcOut \in SolcOutputs
    /\ nameArg \in NameArgs
    /\ (UsesSuppliedName(variant) /\ nameArg = "undeclared") => ~solcOut.named
    /\ tokenAddress = "missing" /\ recipients = <<>> /\ amount = 0

InitToken ==
    /\ tool = "token"
    /\ variant \in TokenVariants
    /\ key \in Keys
    /\ (variant = "tool") => key = "ok"
    /\ tokenAddress \in {"missing", "bad", "ok"}
    /\ recipients \in RecipientLists
    /\ amount \in Amounts
    /\ balance \in Balances
    /\ hasSource = FALSE /\ pragma = "none"
    /\ solcOut = [severities |-> {}, named |-> FALSE, any |-> FALSE, bytecode |-> ""]
    /\ nameArg = "none"

InitStdout ==
    /\ tool = "stdout"
    /\ variant \in OutVariants
    /\ key = "ok"
    /\ tokenAddress = "missing" /\ recipients = <<>> /\ amount = 0
    /\ hasSource = FALSE /\ pragma = "none"
    /\ solcOut = [severities |-> {}, named |-> FALSE, any |-> FALSE, bytecode |-> ""]
    /\ nameArg = "none"

InitVersion ==
    /\ tool = "version"
    /\ variant \in VersionVariants
    /\ source \in Sources
    /\ key = "ok"
    /\ tokenAddress = "missing" /\ recipients = <<>> /\ amount = 0
    /\ hasSource = TRUE /\ pragma = "none"
    /\ solcOut = [severities |-> {}, named |-> FALSE, any |-> FALSE, bytecode |-> ""]
    /\ nameArg = "none"

InitArtifact ==
    /\ tool = "artifact"
    /\ variant = "store"
    /\ key = "ok"
    /\ tokenAddress = "missing" /\ recipients = <<>> /\ amount = 0
    /\ hasSource = FALSE /\ pragma = "none"
    /\ solcOut = [severities |-> {}, named |-> FALSE, any |-> FALSE, bytecode |-> ""]
    /\ nameArg = "none"

InitInteract ==
    /\ tool = "interact"
    /\ variant \in InteractVariants
    /\ key \in Keys
    /\ request \in Requests
    /\ tokenAddress = "missing" /\ recipients = <<>> /\ amount = 0
    /\ hasSource = FALSE /\ pragma = "none"
    /\ solcOut = [severities |-> {}, named |-> FALSE, any |-> FALSE, bytecode |-> ""]
    /\ nameArg = "none"

InitScript ==
    /\ tool = "script"
    /\ variant \in ScriptVariants
    /\ key = "ok"
    /\ request \in ScriptRequests
    /\ tokenAddress = "missing" /\ recipients = <<>> /\ amount = 0
    /\ hasSource = TRUE /\ pragma = "none"
    /\ solcOut = [severities |-> {}, named |-> FALSE, any |-> FALSE, bytecode |-> ""]
    /\ nameArg = "none"

InitOverlap ==
    /\ \/ /\ tool = "saverace"
          /\ variant \in SaveRaceVariants
          /\ shared \in {NoFile} \cup { artifactText("earlier", n) : n \in 1..MaxChunks }
          /\ procs \in [Procs -> [pc : {"confirmed"}, len : 1..MaxChunks]]
       \/ /\ tool = "subprocess"
          /\ variant = "script"
          /\ shared = "none"
          /\ procs = [p \in Procs |-> [pc |-> "requested", ran |-> "none", result |-> "none"]]
    /\ key = "ok"
    /\ tokenAddress = "missing" /\ recipients = <<>> /\ amount = 0
    /\ hasSource = TRUE /\ pragma = "none"
    /\ solcOut = [severities |-> {}, named |-> FALSE, any |-> FALSE, bytecode |-> ""]
    /\ nameArg = "none"

\* the contract after its constructor: the deployer is the admin, is
\* registered and has weight 1
InitVoting ==
    /\ tool = "voting"
    /\ variant = "AdvancedVoting"
    /\ now = 0
    /\ hasRegistered = [a \in Accounts |-> a = admin]
    /\ voters = [a \in Accounts |-> IF a = admin THEN [NewVoter EXCEPT !.weight = 1]
                                                  ELSE NewVoter]
    /\ proposals = <<>>
    /\ key = "ok"
    /\ tokenAddress = "missing" /\ recipients = <<>> /\ amount = 0
    /\ hasSource = FALSE /\ pragma = "none"
    /\ solcOut = [severities |-> {}, named |-> FALSE, any |-> FALSE, bytecode |-> ""]
    /\ nameArg = "none"

Init ==
    /\ \/ (InitDeploy \/ InitToken \/ InitStdout \/ InitArtifact) /\ source = <<>>
                /\ request = NoRequest
       \/ InitVersion /\ request = NoRequest
       \/ (InitInteract \/ InitScript) /\ source = <<>>
       \/ (InitOverlap \/ InitVoting) /\ source = <<>> /\ request = NoRequest
    /\ tool # "voting" =>
           /\ now = 0
           /\ hasRegistered = [a \in Accounts |-> FALSE]
           /\ voters = [a \in Accounts |-> NewVoter]
           /\ proposals = <<>>
    /\ tool \notin {"saverace", "subprocess"} =>
           shared = NoFile /\ procs = [p \in Procs |-> [pc |-> "none"]]
    /\ lastSave = "none"
    /\ tool # "token" => balance = 0
    /\ rpcCalls = <<>>
    /\ receiptStatus = "none"
    /\ outcome = NoOutcomeYet
    /\ printed = {}
    /\ exitCode = "running"
    /\ files = {}
    /\ history = <<>>
    /\ query = "none"
    /\ listing = <<>>
    /\ loaded = NotLoaded
    /\ normalized = NoText
    /\ verdict = "none"
    /\ pc = "entry"
    /\ txHash = NoHash
    /\ waitOutcome = NoOutcome
    /\ sendCalls = 0
    /\ chainTxs = {}
    /\ artifacts \in IF tool = "deploy"
                     THEN [{ContractName} -> {NoArtifact, EarlierArtifact}]
                     ELSE [{ContractName} -> {NoArtifact}]
    /\ result = NoResult
    /\ response = NoResponse
    /\ rawAmount = amount
    /\ idx = 1
    /\ successful = <<>>
    /\ failed = <<>>
    /\ transferCalls = <<>>
    /\ inFlight = {}
    /\ readThrown = {}
    /\ lastWrite = NoWrite
    /\ stdoutReal = <<>>
    /\ stderrReal = <<>>

Next ==
    \/ deploy_entry
    \/ deploy_estimateGas
    \/ deploy_send
    \/ deploy_wait
    \/ tok_entry
    \/ tok_decimals
    \/ tok_symbol
    \/ tok_balance
    \/ tok_transfer
    \/ tok_confirm
    \/ out_consoleLog
    \/ out_stdoutWrite
    \/ out_transportSend
    \/ out_drain
    \/ ver_normalize
    \/ ver_recheck
    \/ ver_gate
    \/ art_save
    \/ art_loadByName
    \/ art_loadByAddress
    \/ ix_entry
    \/ ix_read
    \/ ix_send
    \/ ix_wait
    \/ script_run
    \/ race_open
    \/ race_write
    \/ race_writeFileSync
    \/ sub_writeAndExec
    \/ sub_childLoad
    \/ sub_childDeploy
    \/ sub_cleanupAndReturn
    \/ vote_tick
    \/ vote_registerVoter
    \/ vote_grantVotingRights
    \/ vote_createProposal
    \/ vote_delegate
    \/ vote_vote
    \/ vote_executeProposal

Spec == Init /\ [][Next]_vars

----------------------------------------------------------------------------
(* Properties *)

Range(s) == { s[k] : k \in DOMAIN s }

\* positions of the recipient list that have an entry in a result list
Positions(entries) == { entries[k].i : k \in DOMAIN entries }

DeployDone == tool = "deploy" /\ pc = "done"

TokenDone == tool = "token" /\ pc = "done"

\* the receipt arrived and carries no deployed-contract address
ReceiptWithoutAddress == ~waitOutcome.threw /\ waitOutcome.contractAddress = NoAddr

\* C1: a deploy whose creation transaction is confirmed by a receipt without a
\* deployed-contract address ends in a failure, and that failure carries the
\* transaction hash obtained at the send.
C1_NoAddressReceiptFailsWithHash ==
    (DeployDone /\ ReceiptWithoutAddress) =>
        (~result.success /\ result.transactionHash = txHash)

\* C2: when the wait for the receipt fails, the failure result carries the hash
\* obtained at the send; when the send itself fails, the result is a failure
\* with no address.
C2_NetworkFailureKeepsHash ==
    DeployDone =>
        /\ waitOutcome.threw => (~result.success /\ result.transactionHash = txHash)
        /\ (sendCalls = 1 /\ txHash = NoHash) => (~result.success /\ result.address = NoAddr)

\* the messages with which the variants report that the secret is missing
ConfigErrors ==
    { "No private key found in env.js", "PRIVATE_KEY not found in env.js",
      "Private key not found in env.js", "No private key provided",
      "Private key is required for deployment" }

\* C3: without a signing secret, a deploy of a given source submits no creation
\* transaction, and it ends in a configuration failure.
C3_NoSecretNoSubmission ==
    (tool = "deploy" /\ hasSource /\ key = "none") =>
        /\ sendCalls = 0
        /\ pc = "done" => (~result.success /\ result.error \in ConfigErrors)

\* the variants that answer an MCP tool call
IsToolHandler ==
    \/ tool = "deploy" /\ variant \in {"forcesolc", "multi", "shared", "viem"}
    \/ tool = "token" /\ variant \in {"handler", "tool"}

\* C4: whatever the input and the outcome, the response of a deploy-contract or
\* send-token tool handler is the text of one JSON object with a boolean
\* success, and with an error string when success is false.
C4_HandlerRespondsWithJson ==
    (IsToolHandler /\ pc = "done") =>
        /\ response.fmt = "json"
        /\ response.body.success \in BOOLEAN
        /\ ~response.body.success => response.body.error \notin {NoError, Pending}

\* the chunk handed to the call is a string that parses as one JSON value
IsJsonString(c) == c.isString /\ JsonParses(c.text)

\* C5: every chunk on the real stdout is a string that parses as one JSON
\* value; console.log output, and any chunk that is not a JSON string, goes to
\* stderr and not to stdout.
C5_StdoutCarriesOnlyJson ==
    tool = "stdout" =>
        /\ \A k \in DOMAIN stdoutReal : IsJsonString(stdoutReal[k])
        /\ lastWrite.via = "console.log" =>
               (stdoutReal = <<>> /\ stderrReal # <<>>)
        /\ (lastWrite.via = "stdout.write" /\ ~IsJsonString(lastWrite.chunk)) =>
               (stdoutReal = <<>> /\ stderrReal # <<>>)

\* the request went through every check before the loop and the loop ran to
\* its end: each recipient has its entry
BatchCompleted ==
    /\ TokenDone
    /\ Len(successful) + Len(failed) = Len(recipients)
    /\ result.error \in {NoError, "All transfers failed"}

\* C6: a batch that went through validation succeeds overall if and only if at
\* least one transfer was confirmed.
C6_SuccessIffOneConfirmed ==
    BatchCompleted => (result.success <=> Len(successful) >= 1)

\* C7: a request whose amount is <= 0 or whose recipient list is empty submits
\* no transfer and ends in a failure.
C7_BadAmountOrEmptyListRejected ==
    (tool = "token" /\ (amount <= 0 \/ Len(recipients) = 0)) =>
        /\ transferCalls = <<>>
        /\ pc = "done" => ~result.success

TransferErrors == {"send failed", "wait failed"}

\* recipient j was taken up by the loop: its transfer was submitted, or it has
\* its own failure entry
Attempted(j) == j \in Range(transferCalls) \/ j \in Positions(failed)

\* C8: a transfer that fails while sending or while waiting for confirmation
\* is recorded as that recipient's failure, and when the batch has ended every
\* later recipient has been attempted.
C8_FailureDoesNotAbortBatch ==
    tool = "token" =>
        /\ \A i \in Range(transferCalls) :
               i \in inFlight \/ i \in Positions(successful) \/ i \in Positions(failed)
        /\ \A k \in DOMAIN failed :
               failed[k].error \in TransferErrors =>
                   /\ failed[k].i \in Range(transferCalls)
                   /\ pc = "done" =>
                          \A j \in (failed[k].i + 1)..Len(recipients) : Attempted(j)

\* the first transfer failed while waiting for confirmation, and the second
\* recipient's transfer was submitted all the same
C8_Witness ==
    /\ TokenDone
    /\ Len(recipients) = 2
    /\ \E k \in DOMAIN failed : failed[k].i = 1 /\ failed[k].error = "wait failed"
    /\ transferCalls = <<1, 2>>

\* a recipient is malformed: not 0x-prefixed, not 42 characters long, or not
\* a valid address (the case of the prefix aside)
Malformed(r) == recipientError(toLowerCase(r)) # NoError

\* the request is well-formed apart from its recipients, and the token reads
\* went through
ValidButForRecipients ==
    /\ tool = "token"
    /\ key = "ok" /\ tokenAddress = "ok" /\ amount > 0 /\ Len(recipients) > 0

\* C9: in a batch with malformed recipients, no transfer is submitted for a
\* malformed recipient, each malformed recipient has a per-recipient failure
\* entry, and every well-formed recipient is attempted.
C9_MalformedRecipientsIsolated ==
    ValidButForRecipients =>
        /\ \A i \in Range(transferCalls) : ~Malformed(recipients[i])
        /\ (pc = "done" /\ result.error # "Insufficient token balance"
              /\ readThrown = {}) =>
               \A i \in DOMAIN recipients :
                   IF Malformed(recipients[i])
                   THEN i \in Positions(failed)
                   ELSE i \in Range(transferCalls)

\* C10: when a token read (symbol, decimals, balanceOf) fails, the request is
\* not aborted: the transfers are still attempted.
C10_ReadFailureNotFatal ==
    (ValidButForRecipients /\ pc = "done" /\ readThrown # {}
       /\ result.error # "Insufficient token balance"
       /\ \A i \in DOMAIN recipients : ~Malformed(recipients[i])) =>
        \A i \in DOMAIN recipients : i \in Range(transferCalls)

\* where the pragma directives of a text start, scanning from i as a global
\* match does: each directive ends at its semicolon and the scan goes on there
RECURSIVE DirectivesFrom(_, _)
DirectivesFrom(s, i) ==
    LET M == { p \in i..Len(s) : MatchesAt(s, p) } IN
      IF M = {} THEN {}
      ELSE LET p == CHOOSE q \in M : \A r \in M : q <= r IN
             {p} \cup DirectivesFrom(s, FirstSemi(s, p + 1) + 1)

Directives(s) == DirectivesFrom(s, 1)

\* the directive that starts at p is "pragma solidity 0.8.28;"
IsRequiredDirective(s, p) == trim(Captured(s, p)) = <<"v">>

\* a normalizer has returned its text
NormalizerReturned ==
    tool = "version" /\ variant \in Normalizers /\ normalized # NoText

\* C11: when the source has pragma directives, the normalizer's output has the
\* directive "pragma solidity 0.8.28;" and no directive with another specifier.
C11_NoOtherVersionRemains ==
    (NormalizerReturned /\ Directives(source) # {}) =>
        /\ \E p \in Directives(normalized) : IsRequiredDirective(normalized, p)
        /\ \A p \in Directives(normalized) : IsRequiredDirective(normalized, p)

\* the text starts with an SPDX license comment
LeadingSpdx(s) == Len(s) >= 1 /\ s[1] = "S"

\* the position after the empty lines that start at i
RECURSIVE SkipEmptyLines(_, _)
SkipEmptyLines(s, i) ==
    IF i <= Len(s) /\ s[i] = "n" THEN SkipEmptyLines(s, i + 1) ELSE i

\* C12: when the source has no pragma directive, the output has exactly one,
\* "pragma solidity 0.8.28;", right after a leading SPDX comment if there is
\* one and at the very top otherwise.
C12_OneDirectiveInserted ==
    (NormalizerReturned /\ source # <<>> /\ Directives(source) = {}) =>
        /\ Cardinality(Directives(normalized)) = 1
        /\ \A p \in Directives(normalized) :
               /\ IsRequiredDirective(normalized, p)
               /\ IF LeadingSpdx(source)
                  THEN LeadingSpdx(normalized) /\ p = SkipEmptyLines(normalized, 2)
                  ELSE p = 1

\* C13: for a non-empty source, the text fixVersion returns passes
\* checkVersion.
C13_FixedSourceIsValid ==
    (tool = "version" /\ variant = "fixVersion" /\ pc = "done" /\ source # <<>>) =>
        verdict = "valid"

\* C14: a rejecting entry point goes on to compile only when the specifier of
\* the source's pragma directive is exactly 0.8.28.
C14_GateAdmitsOnlyExactVersion ==
    (tool = "version" /\ variant \in Gates /\ pc = "done" /\ verdict = "compile") =>
        /\ pragmaMatch(source) # 0
        /\ IsRequiredDirective(source, pragmaMatch(source))

\* the request gets as far as the compile step: it has a source and a secret,
\* and passes the clean deployer's version test
ReachesCompile ==
    /\ tool = "deploy" /\ hasSource /\ key = "ok"
    /\ variant = "clean" => pragma = "0.8.28"

NotFoundErrors ==
    { "Contract not found in compiled output", "Contract not found in the compiled output" }

\* C15: a request that supplies a contractName the source does not declare
\* fails with a contract-not-found error, and submits no creation transaction.
C15_UndeclaredNameNotDeployed ==
    (ReachesCompile /\ nameArg = "undeclared" /\ solcOut.any
       /\ "error" \notin solcOut.severities) =>
        /\ sendCalls = 0
        /\ pc = "done" => (~result.success /\ result.error \in NotFoundErrors)

\* the messages with which the compile steps of the variants fail
CompileErrors ==
    { "Compilation errors", "Compilation error", "Contract compilation failed", "TypeError",
      "Compilation failed with error(s)", "No contracts found in compilation output",
      "Compilation failed", "No compiled contracts found" } \cup NotFoundErrors

\* the operation ended in its compile step
CompileFailed == pc = "done" /\ sendCalls = 0 /\ result.error \in CompileErrors

\* the compiler output holds the contract the variant takes from it
ContractFound ==
    IF UsesSuppliedName(variant) THEN solcOut.named ELSE solcOut.any

\* the gas estimate of the viem deployer failed, before the send
EstimateFailed ==
    variant = "viem" /\ pc = "done" /\ sendCalls = 0 /\ result.error = "Deployment error"

\* C16 (as stated): compilation fails if and only if the compiler output has
\* a diagnostic of severity error; with warnings only the workflow goes on to
\* submit the transaction.
C16_FailsIffErrorDiagnostic ==
    (ReachesCompile /\ pc # "entry") =>
        /\ CompileFailed <=> "error" \in solcOut.severities
        /\ (solcOut.severities = {"warning"} /\ pc = "done") =>
               (sendCalls = 1 \/ EstimateFailed)

\* C16 (amended): compilation fails when the output has a diagnostic of
\* severity error, and otherwise only when the output lacks the contract to
\* deploy; without an error diagnostic (warnings or none), with the contract
\* found and its bytecode non-empty, the workflow goes on to submit.
C16_ErrorsFatalWarningsNot ==
    (ReachesCompile /\ pc # "entry") =>
        /\ "error" \in solcOut.severities => CompileFailed
        /\ CompileFailed => ("error" \in solcOut.severities \/ ~ContractFound)
        /\ ("error" \notin solcOut.severities /\ ContractFound /\ solcOut.bytecode # ""
              /\ pc = "done") =>
               (sendCalls = 1 \/ EstimateFailed)

\* the compiler gave warnings only, and the deployment went through
C16_Witness ==
    /\ DeployDone /\ ReachesCompile
    /\ solcOut.severities = {"warning"}
    /\ sendCalls = 1 /\ result.success

\* C17: when the compiler output for the contract has empty bytecode, the
\* operation fails and submits no creation transaction.
C17_EmptyBytecodeNotDeployed ==
    (tool = "deploy" /\ solcOut.bytecode = "") =>
        /\ sendCalls = 0
        /\ pc = "done" => ~result.success

\* the saves of the history that wrote the file <name>.json of directory dir
SavesTo(dir, n) ==
    { i \in DOMAIN history :
        artifactsDir(history[i].by) = dir /\ history[i].deployment.contractName = n }

FilesAt(dir, n) == { f \in files : f.dir = dir /\ f.name = n }

ArtifactDirs == {"artifacts", "monad-deployments"}

\* C18: after any number of saves under one contract name, the deployer's
\* directory holds exactly one artifact file for that name, and its content is
\* exactly what the last of those saves wrote: no field of an earlier artifact
\* is left in it.
C18_LastSaveWins ==
    tool = "artifact" =>
      \A dir \in ArtifactDirs, n \in ContractNames :
        LET S == SavesTo(dir, n) IN
          IF S = {} THEN FilesAt(dir, n) = {}
          ELSE LET last == CHOOSE i \in S : \A j \in S : j <= i IN
                 /\ Cardinality(FilesAt(dir, n)) = 1
                 /\ \A f \in FilesAt(dir, n) :
                      f.content = artifactJson(history[last].by, history[last].deployment)

\* a name was saved twice by the same deployer, with another address and
\* another interface the second time
C18_Witness ==
    /\ tool = "artifact"
    /\ Len(history) = 2
    /\ history[1].by = history[2].by
    /\ history[1].deployment.contractName = history[2].deployment.contractName
    /\ history[1].deployment.address # history[2].deployment.address
    /\ history[1].deployment.abi # history[2].deployment.abi

\* C19: when the last save was made for a name and loadContract is then asked
\* for that name, the value it yields equals the deployment in contractName,
\* address, abi and transactionHash.
C19_LoadReturnsWhatWasDeployed ==
    (tool = "artifact" /\ pc = "loaded-by-name" /\ history # <<>>
       /\ history[Len(history)].deployment.contractName = query) =>
      LET d == history[Len(history)].deployment IN
        /\ loaded.ok
        /\ loaded.contractName = d.contractName
        /\ loaded.address = d.address
        /\ loaded.abi = d.abi
        /\ loaded.transactionHash = d.transactionHash

\* two address strings that spell the same address, whatever their case
SameAddress(a, b) == a.id = b.id

\* the positions of the listing whose artifact has the address asked for
MatchesIn(ls, q) == { i \in DOMAIN ls : SameAddress(ls[i].content.address, q) }

\* C20: loadContract by address returns the ABI of the first artifact of the
\* directory listing whose address equals the one asked for without regard to
\* case, and fails with a not-found error when no artifact matches.
C20_FirstMatchIgnoringCase ==
    (tool = "artifact" /\ pc = "loaded-by-address") =>
      LET M == MatchesIn(listing, query) IN
        IF M = {}
        THEN ~loaded.ok /\ loaded.error = "Could not find ABI for contract"
        ELSE /\ loaded.ok
             /\ \E i \in M : /\ \A j \in M : i <= j
                             /\ loaded.abi = listing[i].content.abi

\* two artifacts carry the address, the first of the listing in checksum case;
\* the address is asked for in lower case and the first one's interface comes back
C20_Witness ==
    /\ tool = "artifact" /\ pc = "loaded-by-address"
    /\ Len(listing) = 2
    /\ MatchesIn(listing, query) = {1, 2}
    /\ listing[1].content.address.case = "mixed"
    /\ query.case = "lower"
    /\ listing[1].content.abi # listing[2].content.abi
    /\ loaded.ok /\ loaded.abi = listing[1].content.abi

\* no artifact of the directory carries the address asked for
C20_NotFoundWitness ==
    /\ tool = "artifact" /\ pc = "loaded-by-address"
    /\ listing # <<>>
    /\ MatchesIn(listing, query) = {}
    /\ ~loaded.ok

\* the receipt arrived and carries a deployed-contract address
ConfirmedWithAddress == ~waitOutcome.threw /\ waitOutcome.contractAddress \in Addresses

\* the invocation wrote the artifact of its contract
ArtifactWritten == artifacts[ContractName] \notin {NoArtifact, EarlierArtifact}

\* C21: a deploy invocation that has ended has written the artifact of its
\* contract exactly when the deployment was confirmed with a deployed-contract
\* address; otherwise the store is as it was before the invocation.
C21_ArtifactWrittenIffConfirmed ==
    DeployDone => (ArtifactWritten <=> ConfirmedWithAddress)

InteractDone == tool = "interact" /\ pc = "done"

\* the error of an operation that cannot run for lack of the signing secret
SecretErrors == {"Private key not found in env.js"}

\* C22: without a signing secret a write fails with a configuration error,
\* and a read through the facade still issues its call and hands back what
\* the call returned.
C22_ReadNeedsNoSecret ==
    (InteractDone /\ variant = "facade" /\ key = "none") =>
      IF request.operation = "write"
      THEN outcome.thrown \in SecretErrors /\ rpcCalls = <<>>
      ELSE /\ rpcCalls = <<"readContract">>
           /\ outcome.thrown \notin SecretErrors

\* the entry points that are run from the command line
IsCommandLine == (tool = "interact" /\ variant = "cli") \/ tool = "script"

\* the run met an error: an artifact was missing, a compile failed, an RPC
\* call failed, the secret was missing
RunMetError ==
    \/ tool = "script" /\ request.fault # "none"
    \/ tool = "interact" /\ outcome.thrown # NoError

\* C23: a command-line entry point whose run met an error has printed an
\* error message and ended with a non-zero exit status.
C23_ErrorExitsNonZero ==
    (IsCommandLine /\ pc = "done" /\ RunMetError) =>
      ("error" \in printed /\ exitCode = "1")

\* C29: a write reports success (the success line, the receipt handed back)
\* only when the receipt's status is success; a mined transaction that
\* reverted reaches the caller as an error.
C29_RevertIsAnError ==
    (InteractDone /\ request.operation = "write") =>
      /\ ("success" \in printed \/ outcome.returned = "receipt") => receiptStatus = "success"
      /\ receiptStatus = "reverted" => outcome.thrown # NoError

\* the positions of the recipients whose transfer has ended, one way or the other
Settled == Positions(successful) \cup Positions(failed)

\* C24: at most one transfer of a batch is in flight at any time, the
\* transfers are submitted in the order of the recipient list, and when a
\* transfer is submitted every transfer submitted before it has been confirmed
\* or has failed.
C24_OneTransferAtATime ==
    tool = "token" =>
      /\ Cardinality(inFlight) <= 1
      /\ \A k \in DOMAIN transferCalls :
           /\ k > 1 => transferCalls[k - 1] < transferCalls[k]
           /\ k < Len(transferCalls) => transferCalls[k] \in Settled
           /\ transferCalls[k] \in inFlight \/ transferCalls[k] \in Settled
      /\ \A i \in inFlight : pc = "confirm" /\ i = transferCalls[Len(transferCalls)]

\* the second transfer is in flight and the first one has been confirmed
C24_Witness ==
    /\ tool = "token" /\ pc = "confirm"
    /\ transferCalls = <<1, 2>>
    /\ inFlight = {2}
    /\ 1 \in Positions(successful)

\* the request went through every check before the loop and the loop has ended
LoopEnded == TokenDone /\ result.error \in {NoError, "All transfers failed"}

\* C25: after the transfer loop every position of the recipient list is in
\* exactly one of the two result lists, the two lists together have as many
\* entries as there are recipients, and no recipient's transfer was submitted
\* more than once.
C25_EveryRecipientInOneList ==
    /\ tool = "token" =>
         \A k, l \in DOMAIN transferCalls : k # l => transferCalls[k] # transferCalls[l]
    /\ LoopEnded =>
         /\ Positions(successful) \cap Positions(failed) = {}
         /\ Positions(successful) \cup Positions(failed) = 1..Len(recipients)
         /\ Len(successful) + Len(failed) = Len(recipients)

\* a batch of two ended with one recipient in each list
C25_Witness ==
    /\ LoopEnded
    /\ Len(recipients) = 2
    /\ Len(successful) = 1 /\ Len(failed) = 1

\* the sender's balance does not cover the whole batch
InsufficientBalance == rawAmount > 0 /\ balance < rawAmount * Len(recipients)

\* C28: when the sender's balance is less than the amount times the number
\* of recipients, no transfer is submitted and the loop is not run, and a
\* request with a secret and a token address whose token reads succeeded ends
\* with the insufficient-balance error.
C28_InsufficientBalanceSendsNothing ==
    (tool = "token" /\ InsufficientBalance) =>
      /\ transferCalls = <<>>
      /\ ~LoopEnded
      /\ (pc = "done" /\ key = "ok" /\ tokenAddress = "ok" /\ readThrown = {}) =>
            result.error = "Insufficient token balance"

BothSaved == tool = "saverace" /\ \A p \in Procs : procs[p].pc = "saved"

\* C26: when two deployments of one contract name have both saved, the
\* artifact file is, as a whole, the text written by the save that ended last:
\* no piece of the other deployment's text, or of an earlier one, is in it.
C26_LastWriterWinsWhole ==
    BothSaved => shared = artifactText(lastSave, procs[lastSave].len)

\* C27: of two overlapping deploy-contract requests to the plugin that runs
\* a generated script, each has its own source compiled and deployed and gets
\* its own result back.
C27_OwnScriptOwnResult ==
    tool = "subprocess" =>
      \A p \in Procs :
        /\ procs[p].pc \in {"running", "printed", "returned"} => procs[p].ran = p
        /\ procs[p].pc = "returned" => procs[p].result = p

\* the tallies of proposal id
Tallies(ps, id) == <<ps[id].votesFor, ps[id].votesAgainst, ps[id].votesAbstain>>

\* C30: once the voting period of a proposal has ended (the block time is
\* greater than its endTime), no call changes its votesFor, votesAgainst or
\* votesAbstain.
C30_TalliesFrozenAfterEnd ==
    [][ tool = "voting" =>
          \A id \in DOMAIN proposals :
            now > proposals[id].endTime => Tallies(proposals', id) = Tallies(proposals, id)
      ]_vars

====
